---- MODULE Spec2Model ----
(***************************************************************************)
(* Verification model of the Discord voice-to-text bot.                    *)
(*                                                                         *)
(* The specifications of this module share one state and one Init:         *)
(*   SpecRec    the VoiceRecorder session: start_recording, capture into   *)
(*              the sink, stop_recording (flush wait), _merge_audio_files  *)
(*              (src/src/voice_recorder.py); SpecRecLive adds the fairness *)
(*              of the event loop                                          *)
(*   SpecBot    the command handlers of src/main.py (!record, !stop,       *)
(*              on_voice_state_update) interleaved at their await points   *)
(*   SpecTr     OpenAIProvider.transcribe / transcribe_with_timestamps     *)
(*              with enhancement, compression, splitting and per-chunk     *)
(*              transcription (src/src/llm_providers.py)                   *)
(*   SpecVad    SpeakerAnalyzer._detect_voice_activity                     *)
(*   SpecSp     SpeakerAnalyzer.analyze_recording_with_speakers            *)
(*              (src/src/speaker_analyzer.py)                              *)
(*   SpecClean  VoiceRecorder.cleanup_old_recordings                       *)
(* Each specification leaves the variables of the others unchanged.        *)
(***************************************************************************)
EXTENDS Integers, Sequences, FiniteSets, TLC

(***************************************************************************)
(* Bounds of the model                                                     *)
(***************************************************************************)
\* participants whose track a sink can hold
MaxTracks == 2
\* largest byte length of one captured track
MaxBytes == 2
\* guilds the bot serves
NumGuilds == 2
\* !record handlers that can be in flight in one guild
MaxRecordHandlers == 2
\* file sizes are 10, 20, ..., 10 * MaxSizeK MB
MaxSizeK == 4
\* longest recording, seconds
MaxDur == 200
\* longest track of which every pattern is given to the voice-activity
\* detection, in 100 ms windows; tracks of one or two runs are twice as long
MaxWindows == 11
\* members of the voice channel
MaxUsers == 2
\* pieces the transcription has between its sentence marks
MaxPieces == 3
\* largest max_age_days given to the retention sweep
MaxAgeDays == 2
\* files in the output directory at a sweep
MaxFiles == 2

(***************************************************************************)
(* Program constants                                                       *)
(***************************************************************************)
\* stop_recording: `while not self.recording_finished and wait_time < 10`
WaitLimit == 10
\* transcribe: max_size = 25 * 1024 * 1024, here in MB
MaxSizeMB == 25
\* transcribe: _split_audio_file(..., target_size_mb=20)
TargetSizeMB == 20
\* cleanup_old_recordings: timedelta.days counts whole days of 24 hours
HoursPerDay == 24
\* _detect_voice_activity: chunk_length = 100 (ms)
ChunkLength == 100
\* SpeakerAnalyzer: MIN_SPEECH_DURATION defaults to "1.0" s, int(... * 1000) ms
MinSpeechMs == 1000

VARIABLES
  \* ---- VoiceRecorder (src/src/voice_recorder.py) ----
  sink,                \* self.sink: NoSink, or a sink whose audio_data lists the byte length of each track in insertion order
  recording_finished,  \* self.recording_finished
  rpc,                 \* position of the recorder's caller: "idle", "recording", "waiting", "done", "refused" (the adapter raised in stop_recording)
  wait_time,           \* local wait_time of stop_recording, counted in half seconds
  cbPending,           \* the adapter still owes a call of _finished_callback
  outDir,              \* byte sizes of the recording_*.wav files present in output_dir
  stopResult,          \* what the stop_recording of this session did: returned a path or raised; NoResult until it ends
  wasRecording,        \* the voice client was recording when the last stop_recording was called
  \* ---- command handlers (src/main.py) ----
  recording_status,    \* recording_status[guild_id]
  voice_client,        \* ctx.voice_client / guild.voice_client is set (the bot is connected in the guild)
  session,             \* per guild: "Idle", "Recording" (the recorder began a capture on the guild's voice client), "Stopped" (the recorder's stop ran on it)
  recordPc,            \* position of each !record handler of each guild
  stopPc,              \* position of the guild's !stop handler
  sinkOwner,           \* guild whose !record created voice_recorder.sink (0: none); the recorder is one global object
  \* ---- OpenAIProvider.transcribe / transcribe_with_timestamps (src/src/llm_providers.py) ----
  tpc,                 \* position of the run: "idle", "enhance", "compress", "probe", "extract", "segcall", "call", "done"
  tsMode,              \* TRUE: transcribe_with_timestamps, FALSE: transcribe
  origSize,            \* size in MB of the file at audio_file_path
  enhanced_file,       \* enhanced_file is a path (the enhancement succeeded)
  compressed_file,     \* compressed_file is a path (the compression succeeded)
  compressInput,       \* the file _compress_audio_file was given: "none" (not called), "orig", "enhanced"
  audioFile,           \* which file audio_file names: "orig", "enhanced", "compressed"
  audioSize,           \* its size in MB
  tmpFiles,            \* temporary files on disk: [kind, idx]
  splitSize,           \* size in MB of the file given to _split_audio_file
  total_duration,      \* ffprobe's duration, seconds
  estimated_segments,  \* N of _split_audio_file
  splitIdx,            \* loop index i of _split_audio_file
  segments,            \* the list _split_audio_file builds; times are numerators over estimated_segments
  segPos,              \* position in segments of the loop of _transcribe_segments (1-based)
  calls,               \* every call of client.audio.transcriptions.create, in order: [idx, size, outcome, reported]
  transcriptions,      \* blocks collected so far: [segment_index, start_time]
  all_segments,        \* adjusted timestamp segments collected so far: [chunk, start, end]
  tResult,             \* what the run returned
  \* ---- the !stop handler after the transcription (src/main.py) ----
  hpc,                 \* "waiting", "failed" (the handler reported a failed transcription), "minutes" (it generated minutes from the text)
  \* ---- SpeakerAnalyzer._detect_voice_activity (src/src/speaker_analyzer.py) ----
  vpc,                 \* "idle", "loaded", "done"
  vTrack,              \* the audio: for each full 100 ms window, whether chunk.dBFS > silence_threshold
  vTail,               \* ms of audio after the last full window (len(audio) % 100)
  vSegments,           \* the returned list of (start, end), in ms
  \* ---- SpeakerAnalyzer.analyze_recording_with_speakers (src/src/speaker_analyzer.py) ----
  spc,                 \* "idle", "extract", "detect", "assign", "assigned", "single"
  participants,        \* the members, by user id
  transcription,       \* the pieces between the sentence marks: 1 a sentence, 0 blank
  speaker_audio_files, \* keys of the dict _extract_individual_audio returns, in insertion order
  speaker_activities,  \* the dict _detect_speech_activities returns: [user_id, intervals] in insertion order
  speaker_segments,    \* the returned list of SpeakerSegment
  spTempFiles,         \* users whose temporary audio file (tempfile.NamedTemporaryFile, delete=False) is on disk
  \* ---- VoiceRecorder.cleanup_old_recordings (src/src/voice_recorder.py) ----
  cpc,                 \* "idle", "called", "done"
  dirFiles,            \* the files of output_dir in glob order: [recording (the name matches recording_*.wav), age (hours since st_mtime)]
  max_age_days,        \* the argument
  dirKept              \* for each file of dirFiles, whether it is still there after the sweep

recVars == <<sink, recording_finished, rpc, wait_time, cbPending, outDir, stopResult,
             wasRecording>>

botVars == <<recording_status, voice_client, session, recordPc, stopPc, sinkOwner>>

trVars == <<tpc, tsMode, origSize, enhanced_file, compressed_file, compressInput,
            audioFile, audioSize, tmpFiles, splitSize, total_duration, estimated_segments, splitIdx, segments,
            segPos, calls, transcriptions, all_segments, tResult>>

vadVars == <<vpc, vTrack, vTail, vSegments>>

spVars == <<spc, participants, transcription, speaker_audio_files, speaker_activities,
            speaker_segments, spTempFiles>>

cleanVars == <<cpc, dirFiles, max_age_days, dirKept>>

hVars == <<hpc>>

vars == <<recVars, botVars, trVars, vadVars, spVars, cleanVars, hVars>>

\* self.sink is None
NoSink == [present |-> FALSE, audio_data |-> <<>>]
\* a WaveSink holding the given tracks
SinkOf(tracks) == [present |-> TRUE, audio_data |-> tracks]
\* no file was created
NoFile == 0 - 1
NoResult == [outcome |-> "none", size |-> 0, user |-> 0, file |-> NoFile, error |-> "none"]

(***************************************************************************)
(* VoiceRecorder._merge_audio_files                                        *)
(***************************************************************************)
RECURSIVE LargestScan(_, _, _, _)
\* the loop of lines 91-100: the first track whose size is strictly greater
\* than every earlier one wins; <<0, 0>> is (None, 0)
LargestScan(tracks, i, largest_user_id, largest_size) ==
  IF i > Len(tracks) THEN <<largest_user_id, largest_size>>
  ELSE IF tracks[i] > largest_size
       THEN LargestScan(tracks, i + 1, i, tracks[i])
       ELSE LargestScan(tracks, i + 1, largest_user_id, largest_size)

Raised(err, file) ==
  [outcome |-> "raised", size |-> 0, user |-> 0, file |-> file, error |-> err]

Returned(user, size) ==
  [outcome |-> "returned", size |-> size, user |-> user, file |-> size, error |-> "none"]

\* a plausible slip: the fallback returns the path without looking at the size
MergeFallbackUnchecked(tracks, w2, err) ==
  IF ~w2 THEN Raised("io", NoFile)
  ELSE Returned(1, tracks[1])

\* the except branch, lines 125-145: write the FIRST user's data; return the
\* path only if the file is non-empty, otherwise re-raise. w2: the write succeeds.
MergeFallback(tracks, w2, err) ==
  IF ~w2 THEN Raised("io", NoFile)
  ELSE IF tracks[1] > 0 THEN Returned(1, tracks[1])
  ELSE Raised(err, tracks[1])

\* lines 74-145. s: self.sink; w1, w2: the first and the fallback write succeed
MergeAudioFiles(s, w1, w2) ==
  IF ~s.present THEN Raised("nosink", NoFile)
  ELSE IF Len(s.audio_data) = 0 THEN Raised("nodata", NoFile)
  ELSE LET scan == LargestScan(s.audio_data, 1, 0, 0)
           largest_user_id == scan[1]
           largest_size == scan[2]
       IN IF largest_user_id = 0 \/ largest_size = 0
          THEN MergeFallback(s.audio_data, w2, "novalid")
          ELSE IF ~w1 THEN MergeFallback(s.audio_data, w2, "io")
          ELSE Returned(largest_user_id, largest_size)

(***************************************************************************)
(* VoiceRecorder session (SpecRec)                                         *)
(***************************************************************************)
\* start_recording, lines 21-39: a fresh WaveSink, the flag reset, capture begun
RecStart ==
  /\ rpc \in {"idle", "done", "refused"}
  /\ sink' = SinkOf(<<>>)
  /\ recording_finished' = FALSE
  /\ rpc' = "recording"
  /\ stopResult' = NoResult
  /\ UNCHANGED <<wait_time, cbPending, outDir, wasRecording>>
  /\ UNCHANGED <<botVars, trVars, vadVars, spVars, cleanVars, hVars>>

\* the adapter creates the track of one more participant in sink.audio_data
CaptureNewTrack ==
  /\ rpc = "recording"
  /\ Len(sink.audio_data) < MaxTracks
  /\ \E n \in 0..MaxBytes : sink' = SinkOf(Append(sink.audio_data, n))
  /\ UNCHANGED <<recording_finished, rpc, wait_time, cbPending, outDir, stopResult,
                 wasRecording>>
  /\ UNCHANGED <<botVars, trVars, vadVars, spVars, cleanVars, hVars>>

\* the adapter appends audio to an existing track
CaptureAudio ==
  /\ rpc = "recording"
  /\ \E i \in 1..Len(sink.audio_data) :
       /\ sink.audio_data[i] < MaxBytes
       /\ sink' = [sink EXCEPT !.audio_data[i] = @ + 1]
  /\ UNCHANGED <<recording_finished, rpc, wait_time, cbPending, outDir, stopResult,
                 wasRecording>>
  /\ UNCHANGED <<botVars, trVars, vadVars, spVars, cleanVars, hVars>>

\* stop_recording, line 45-48: voice_client.stop_recording(), wait_time = 0
StopBegin ==
  /\ rpc = "recording"
  /\ rpc' = "waiting"
  /\ wait_time' = 0
  /\ cbPending' = TRUE
  /\ wasRecording' = TRUE
  /\ stopResult' = NoResult
  /\ UNCHANGED <<sink, recording_finished, outDir>>
  /\ UNCHANGED <<botVars, trVars, vadVars, spVars, cleanVars, hVars>>

\* _finished_callback, lines 68-72
FinishedCallback ==
  /\ cbPending
  /\ cbPending' = FALSE
  /\ recording_finished' = TRUE
  /\ UNCHANGED <<sink, rpc, wait_time, outDir, stopResult, wasRecording>>
  /\ UNCHANGED <<botVars, trVars, vadVars, spVars, cleanVars, hVars>>

\* one turn of the loop of lines 49-51: sleep(0.5), wait_time += 0.5
WaitTick ==
  /\ rpc = "waiting"
  /\ ~recording_finished
  /\ wait_time < 2 * WaitLimit
  /\ wait_time' = wait_time + 1
  /\ UNCHANGED <<sink, recording_finished, rpc, cbPending, outDir, stopResult, wasRecording>>
  /\ UNCHANGED <<botVars, trVars, vadVars, spVars, cleanVars, hVars>>

\* stop_recording, lines 43-48 and 64-66, called while the voice client is not
\* recording. The method has no test of its own (the comment of line 44 leaves
\* it to the caller): either voice_client.stop_recording() raises and the
\* exception is passed on, or it returns and the method goes on to the wait.
\* No callback is owed.
StopNotRecording ==
  /\ rpc \in {"idle", "done", "refused"}
  /\ wasRecording' = FALSE
  /\ \/ /\ rpc' = "refused"
        /\ stopResult' = Raised("notrecording", NoFile)
        /\ UNCHANGED wait_time
     \/ /\ rpc' = "waiting"
        /\ wait_time' = 0
        /\ stopResult' = NoResult
  /\ UNCHANGED <<sink, recording_finished, cbPending, outDir>>
  /\ UNCHANGED <<botVars, trVars, vadVars, spVars, cleanVars, hVars>>

\* a stop that goes on only when the callback has come
StopMergeAfterCallback ==
  /\ rpc = "waiting"
  /\ recording_finished
  /\ \E w1 \in BOOLEAN, w2 \in BOOLEAN :
       LET r == MergeAudioFiles(sink, w1, w2)
       IN /\ stopResult' = r
          /\ outDir' = IF r.file = NoFile THEN outDir ELSE outDir \cup {r.file}
  /\ rpc' = "done"
  /\ UNCHANGED <<sink, recording_finished, wait_time, cbPending, wasRecording>>
  /\ UNCHANGED <<botVars, trVars, vadVars, spVars, cleanVars, hVars>>

\* lines 53-66: the loop has ended; merge, then return the path or raise
StopMerge ==
  /\ rpc = "waiting"
  /\ recording_finished \/ wait_time >= 2 * WaitLimit
  /\ \E w1 \in BOOLEAN, w2 \in BOOLEAN :
       LET r == MergeAudioFiles(sink, w1, w2)
       IN /\ stopResult' = r
          /\ outDir' = IF r.file = NoFile THEN outDir ELSE outDir \cup {r.file}
  /\ rpc' = "done"
  /\ UNCHANGED <<sink, recording_finished, wait_time, cbPending, wasRecording>>
  /\ UNCHANGED <<botVars, trVars, vadVars, spVars, cleanVars, hVars>>

RecNext ==
  \/ RecStart
  \/ CaptureNewTrack
  \/ CaptureAudio
  \/ StopBegin
  \/ StopNotRecording
  \/ FinishedCallback
  \/ WaitTick
  \/ StopMerge


(***************************************************************************)
(* Command handlers of src/main.py (SpecBot)                               *)
(* A handler runs without interruption from one await to the next; each    *)
(* action below is one such stretch.                                       *)
(***************************************************************************)
Guilds == 1..NumGuilds
RecordHandlers == 1..MaxRecordHandlers

\* start_recording, lines 105-125: the author is in a voice channel and
\* recording_status.get(guild_id) is false (else the handler answers and
\* returns); the handler then awaits move_to or channel.connect()
RecordCheck(g, k) ==
  /\ recordPc[g][k] = "idle"
  /\ ~recording_status[g]
  /\ recordPc' = [recordPc EXCEPT ![g][k] =
                    IF voice_client[g] THEN "moving" ELSE "connecting"]
  /\ UNCHANGED <<recording_status, voice_client, session, stopPc, sinkOwner>>
  /\ UNCHANGED <<recVars, trVars, vadVars, spVars, cleanVars, hVars>>

\* lines 119-128: move_to / connect has returned; the handler awaits sleep(1).
\* channel.connect() succeeds only while the guild has no voice client yet
\* (the library raises ClientException otherwise, see RecordConnectRefused)
RecordConnected(g, k) ==
  /\ \/ recordPc[g][k] = "moving"
     \/ recordPc[g][k] = "connecting" /\ ~voice_client[g]
  /\ voice_client' = [voice_client EXCEPT ![g] = TRUE]
  /\ recordPc' = [recordPc EXCEPT ![g][k] = "sleeping"]
  /\ UNCHANGED <<recording_status, session, stopPc, sinkOwner>>
  /\ UNCHANGED <<recVars, trVars, vadVars, spVars, cleanVars, hVars>>

\* lines 145-149: move_to / connect raised discord.ClientException; the
\* handler answers and ends, the flag is left as it is
RecordConnectRefused(g, k) ==
  /\ recordPc[g][k] \in {"connecting", "moving"}
  /\ recordPc' = [recordPc EXCEPT ![g][k] = "idle"]
  /\ UNCHANGED <<recording_status, voice_client, session, stopPc, sinkOwner>>
  /\ UNCHANGED <<recVars, trVars, vadVars, spVars, cleanVars, hVars>>

\* lines 150-153: move_to / connect raised another exception: the flag is
\* reset, then the handler awaits ctx.send
RecordConnectFailed(g, k) ==
  /\ recordPc[g][k] \in {"connecting", "moving"}
  /\ recording_status' = [recording_status EXCEPT ![g] = FALSE]
  /\ recordPc' = [recordPc EXCEPT ![g][k] = "failed"]
  /\ UNCHANGED <<voice_client, session, stopPc, sinkOwner>>
  /\ UNCHANGED <<recVars, trVars, vadVars, spVars, cleanVars, hVars>>

\* lines 130-138 with voice_recorder.start_recording (voice_recorder.py 21-36),
\* which holds no await: a new sink replaces voice_recorder.sink, the capture
\* begins on the guild's voice client, the flag is set. A voice client that
\* was disconnected in the meantime takes no capture (see RecordStartFailed)
RecordStart(g, k) ==
  /\ recordPc[g][k] = "sleeping"
  /\ voice_client[g]
  /\ sinkOwner' = g
  /\ session' = [session EXCEPT ![g] = "Recording"]
  /\ recording_status' = [recording_status EXCEPT ![g] = TRUE]
  /\ recordPc' = [recordPc EXCEPT ![g][k] = "idle"]
  /\ UNCHANGED <<voice_client, stopPc>>
  /\ UNCHANGED <<recVars, trVars, vadVars, spVars, cleanVars, hVars>>

\* lines 136, 150-153: voice_recorder.start_recording raised (the adapter
\* refused the capture) after it had replaced the sink (voice_recorder.py
\* 24-25, 37-39); the handler resets the flag and awaits ctx.send
RecordStartFailed(g, k) ==
  /\ recordPc[g][k] = "sleeping"
  /\ sinkOwner' = g
  /\ recording_status' = [recording_status EXCEPT ![g] = FALSE]
  /\ recordPc' = [recordPc EXCEPT ![g][k] = "failed"]
  /\ UNCHANGED <<voice_client, session, stopPc>>
  /\ UNCHANGED <<recVars, trVars, vadVars, spVars, cleanVars, hVars>>

\* lines 154-159: the failed handler disconnects the guild's voice client
RecordCleanup(g, k) ==
  /\ recordPc[g][k] = "failed"
  /\ voice_client' = [voice_client EXCEPT ![g] = FALSE]
  /\ recordPc' = [recordPc EXCEPT ![g][k] = "idle"]
  /\ UNCHANGED <<recording_status, session, stopPc, sinkOwner>>
  /\ UNCHANGED <<recVars, trVars, vadVars, spVars, cleanVars, hVars>>

\* stop_recording (main.py), lines 165-175: the bot is connected and the flag
\* is set (else the handler answers and returns); it awaits ctx.send
StopCheck(g) ==
  /\ stopPc[g] = "idle"
  /\ voice_client[g]
  /\ recording_status[g]
  /\ stopPc' = [stopPc EXCEPT ![g] = "sending"]
  /\ UNCHANGED <<recording_status, voice_client, session, recordPc, sinkOwner>>
  /\ UNCHANGED <<recVars, trVars, vadVars, spVars, cleanVars, hVars>>

\* line 179 into voice_recorder.stop_recording, lines 45-50: the capture is
\* stopped on the guild's voice client and the flush wait begins
StopCall(g) ==
  /\ stopPc[g] = "sending"
  /\ voice_client[g]
  /\ session' = [session EXCEPT ![g] = "Stopped"]
  /\ stopPc' = [stopPc EXCEPT ![g] = "waiting"]
  /\ UNCHANGED <<recording_status, voice_client, recordPc, sinkOwner>>
  /\ UNCHANGED <<recVars, trVars, vadVars, spVars, cleanVars, hVars>>

\* line 179, 247-250: the bot was disconnected in the meantime (ctx.voice_client
\* is None) or the adapter's stop raised: nothing was stopped, the handler
\* resets the flag and awaits processing_msg.edit
StopCallFailed(g) ==
  /\ stopPc[g] = "sending"
  /\ recording_status' = [recording_status EXCEPT ![g] = FALSE]
  /\ stopPc' = [stopPc EXCEPT ![g] = "failing"]
  /\ UNCHANGED <<voice_client, session, recordPc, sinkOwner>>
  /\ UNCHANGED <<recVars, trVars, vadVars, spVars, cleanVars, hVars>>

\* voice_recorder.py 53-62 and main.py 180-185: the wait is over, the merge of
\* voice_recorder.sink returned a file; the flag is reset and the handler
\* awaits ctx.voice_client.disconnect()
StopMerged(g) ==
  /\ stopPc[g] = "waiting"
  /\ recording_status' = [recording_status EXCEPT ![g] = FALSE]
  /\ stopPc' = [stopPc EXCEPT ![g] = "processing"]
  /\ UNCHANGED <<voice_client, session, recordPc, sinkOwner>>
  /\ UNCHANGED <<recVars, trVars, vadVars, spVars, cleanVars, hVars>>

\* voice_recorder.py 64-66 and main.py 247-250: the merge raised; the flag is
\* reset and the handler awaits processing_msg.edit
StopMergeRaised(g) ==
  /\ stopPc[g] = "waiting"
  /\ recording_status' = [recording_status EXCEPT ![g] = FALSE]
  /\ stopPc' = [stopPc EXCEPT ![g] = "failing"]
  /\ UNCHANGED <<voice_client, session, recordPc, sinkOwner>>
  /\ UNCHANGED <<recVars, trVars, vadVars, spVars, cleanVars, hVars>>

\* line 185: ctx.voice_client.disconnect() has returned; the handler goes on
\* to the transcription and the minutes, awaiting the providers
StopDisconnect(g) ==
  /\ stopPc[g] = "processing"
  /\ voice_client' = [voice_client EXCEPT ![g] = FALSE]
  /\ stopPc' = [stopPc EXCEPT ![g] = "transcribing"]
  /\ UNCHANGED <<recording_status, session, recordPc, sinkOwner>>
  /\ UNCHANGED <<recVars, trVars, vadVars, spVars, cleanVars, hVars>>

\* lines 187-257: transcription, minutes, answer; whatever the outcome (done,
\* early return, TimeoutError), the flag is not written again and the finally
\* block disconnects the voice client the guild has by then
StopProcess(g) ==
  /\ stopPc[g] = "transcribing"
  /\ voice_client' = [voice_client EXCEPT ![g] = FALSE]
  /\ stopPc' = [stopPc EXCEPT ![g] = "idle"]
  /\ UNCHANGED <<recording_status, session, recordPc, sinkOwner>>
  /\ UNCHANGED <<recVars, trVars, vadVars, spVars, cleanVars, hVars>>

\* lines 247-257: an exception after the stop (disconnect, transcription, ...):
\* the flag is reset again, the finally block disconnects
StopProcessFailed(g) ==
  /\ stopPc[g] \in {"processing", "transcribing"}
  /\ recording_status' = [recording_status EXCEPT ![g] = FALSE]
  /\ voice_client' = [voice_client EXCEPT ![g] = FALSE]
  /\ stopPc' = [stopPc EXCEPT ![g] = "idle"]
  /\ UNCHANGED <<session, recordPc, sinkOwner>>
  /\ UNCHANGED <<recVars, trVars, vadVars, spVars, cleanVars, hVars>>

\* lines 249-257: the failed handler's finally block disconnects
StopCleanup(g) ==
  /\ stopPc[g] = "failing"
  /\ voice_client' = [voice_client EXCEPT ![g] = FALSE]
  /\ stopPc' = [stopPc EXCEPT ![g] = "idle"]
  /\ UNCHANGED <<recording_status, session, recordPc, sinkOwner>>
  /\ UNCHANGED <<recVars, trVars, vadVars, spVars, cleanVars, hVars>>

\* on_voice_state_update, lines 617-636, for a member event that leaves the
\* bot's channel without a human: the flag is reset and the bot disconnects;
\* voice_recorder.stop_recording is not called
VoiceStateUpdate(g) ==
  /\ voice_client[g]
  /\ recording_status' = [recording_status EXCEPT ![g] = FALSE]
  /\ voice_client' = [voice_client EXCEPT ![g] = FALSE]
  /\ UNCHANGED <<session, recordPc, stopPc, sinkOwner>>
  /\ UNCHANGED <<recVars, trVars, vadVars, spVars, cleanVars, hVars>>

BotNext ==
  \/ \E g \in Guilds, k \in RecordHandlers : RecordCheck(g, k)
  \/ \E g \in Guilds, k \in RecordHandlers : RecordConnected(g, k)
  \/ \E g \in Guilds, k \in RecordHandlers : RecordConnectRefused(g, k)
  \/ \E g \in Guilds, k \in RecordHandlers : RecordConnectFailed(g, k)
  \/ \E g \in Guilds, k \in RecordHandlers : RecordStart(g, k)
  \/ \E g \in Guilds, k \in RecordHandlers : RecordStartFailed(g, k)
  \/ \E g \in Guilds, k \in RecordHandlers : RecordCleanup(g, k)
  \/ \E g \in Guilds : StopCheck(g)
  \/ \E g \in Guilds : StopCall(g)
  \/ \E g \in Guilds : StopCallFailed(g)
  \/ \E g \in Guilds : StopMerged(g)
  \/ \E g \in Guilds : StopMergeRaised(g)
  \/ \E g \in Guilds : StopDisconnect(g)
  \/ \E g \in Guilds : StopProcess(g)
  \/ \E g \in Guilds : StopProcessFailed(g)
  \/ \E g \in Guilds : StopCleanup(g)
  \/ \E g \in Guilds : VoiceStateUpdate(g)


(***************************************************************************)
(* OpenAIProvider.transcribe and transcribe_with_timestamps (SpecTr)       *)
(* Sizes are in MB. Chunk times are exact: start_time and duration are     *)
(* kept as numerators over estimated_segments (start_time = i * D / N is   *)
(* stored as i * D).                                                       *)
(***************************************************************************)
Sizes == {10 * k : k \in 1..MaxSizeK}
Durations == {0, 7, MaxDur}
\* what the service reports for one file in verbose_json: segments with
\* file-relative start and end, seconds
SegLists == {<<>>, <<[start |-> 0, end |-> 2], [start |-> 2, end |-> 5]>>}

Tmp(kind, idx) == [kind |-> kind, idx |-> idx]
Whole == 0 - 1
NoTranscript == [kind |-> "none", blocks |-> <<>>, segments |-> <<>>]
Transcript(kind, blocks, segs) == [kind |-> kind, blocks |-> blocks, segments |-> segs]

\* a count taken from the 25 MB limit of the service, rounded up, plus one
EstimatedSegmentsByCeiling(file_size_mb, target_size_mb) ==
  ((file_size_mb + MaxSizeMB - 1) \div MaxSizeMB) + 1

\* _split_audio_file, lines 533-534: int((file_size_mb / target_size_mb) + 1)
EstimatedSegments(file_size_mb, target_size_mb) == (file_size_mb \div target_size_mb) + 1

\* lines 543-549, times N: start_time = i * segment_duration, the last chunk
\* takes total_duration - start_time
StartTimeN(i, D) == i * D
DurationN(i, D, N) == IF i = N - 1 THEN N * D - StartTimeN(i, D) ELSE D

RECURSIVE SumSizes(_)
SumSizes(segs) == IF segs = <<>> THEN 0 ELSE Head(segs).size + SumSizes(Tail(segs))

\* the cleanup loops of _transcribe_segments (652-657, 677-681) and of
\* _transcribe_segments_with_timestamps (748-753, 778-782): Path is imported
\* only inside other methods, so Path(...) raises NameError there, the
\* enclosing try swallows it and no chunk file is removed
SegmentCleanup(files, segs) == files

\* lines 183-204 / 897-914: unlink of the enhanced and the compressed file
DirectCleanup(files, enh, comp) ==
  (files \ (IF enh THEN {Tmp("enhanced", 0)} ELSE {}))
         \ (IF comp THEN {Tmp("compressed", 0)} ELSE {})

\* lines 127-135 / 844-852: after the chunks of the compressed file were
\* transcribed, the compressed file is unlinked
CompressedCleanup(files, comp) ==
  IF comp THEN files \ {Tmp("compressed", 0)} ELSE files

\* transcribe / transcribe_with_timestamps is called with an existing file
TrBegin ==
  /\ tpc = "idle"
  /\ \E m \in BOOLEAN, sz \in Sizes :
       /\ tsMode' = m
       /\ origSize' = sz
  /\ tpc' = "enhance"
  /\ UNCHANGED <<enhanced_file, compressed_file, audioFile, audioSize, tmpFiles, splitSize,
                 total_duration, estimated_segments, splitIdx, segments, segPos, calls,
                 transcriptions, all_segments, tResult>>
  /\ UNCHANGED compressInput
  /\ UNCHANGED <<recVars, botVars, vadVars, spVars, cleanVars, hVars>>

\* a transcribe that gives up when the enhancement fails
TrEnhanceAborting ==
  /\ tpc = "enhance"
  /\ \E outcome \in {"disabled", "failed", "ok"}, e \in Sizes :
       /\ outcome # "ok" => e = 10
       /\ enhanced_file' = (outcome = "ok")
       /\ tmpFiles' = IF outcome = "disabled" THEN tmpFiles
                      ELSE tmpFiles \cup {Tmp("enhanced", 0)}
       /\ audioFile' = IF outcome = "ok" THEN "enhanced" ELSE "orig"
       /\ audioSize' = IF outcome = "ok" THEN e ELSE origSize
       /\ tpc' = IF outcome = "failed" THEN "done"
                 ELSE IF audioSize' > MaxSizeMB THEN "compress" ELSE "call"
       /\ tResult' = IF outcome = "failed" THEN Transcript("unexpected", <<>>, <<>>)
                     ELSE tResult
  /\ UNCHANGED <<tsMode, origSize, compressed_file, splitSize, total_duration,
                 estimated_segments, splitIdx, segments, segPos, calls, transcriptions,
                 all_segments>>
  /\ UNCHANGED compressInput
  /\ UNCHANGED <<recVars, botVars, vadVars, spVars, cleanVars, hVars>>

\* _enhance_audio_for_transcription (326-427) and lines 91-104: preprocessing
\* switched off (None before any file is made); ffmpeg fails or leaves an
\* empty output (None, the temporary file stays); or the enhanced file of
\* size e is taken as audio_file. Then the size check of line 104.
TrEnhance ==
  /\ tpc = "enhance"
  /\ \E outcome \in {"disabled", "failed", "ok"}, e \in Sizes :
       /\ outcome # "ok" => e = 10
       /\ enhanced_file' = (outcome = "ok")
       /\ tmpFiles' = IF outcome = "disabled" THEN tmpFiles
                      ELSE tmpFiles \cup {Tmp("enhanced", 0)}
       /\ audioFile' = IF outcome = "ok" THEN "enhanced" ELSE "orig"
       /\ audioSize' = IF outcome = "ok" THEN e ELSE origSize
       /\ tpc' = IF audioSize' > MaxSizeMB THEN "compress" ELSE "call"
  /\ UNCHANGED <<tsMode, origSize, compressed_file, splitSize, total_duration,
                 estimated_segments, splitIdx, segments, segPos, calls, transcriptions,
                 all_segments, tResult>>
  /\ UNCHANGED compressInput
  /\ UNCHANGED <<recVars, botVars, vadVars, spVars, cleanVars, hVars>>

\* a transcribe that splits whatever the compression gives
TrCompressAlwaysSplits ==
  /\ tpc = "compress"
  /\ \E ok \in BOOLEAN, c \in Sizes :
       /\ ~ok => c = 10
       /\ compressed_file' = ok
       /\ tmpFiles' = tmpFiles \cup {Tmp("compressed", 0)}
       /\ audioFile' = IF ok THEN "compressed" ELSE audioFile
       /\ audioSize' = IF ok THEN c ELSE audioSize
       /\ splitSize' = IF ok THEN c ELSE origSize
       /\ tpc' = "probe"
  /\ UNCHANGED <<tsMode, origSize, enhanced_file, total_duration, estimated_segments,
                 splitIdx, segments, segPos, calls, transcriptions, all_segments, tResult>>
  /\ compressInput' = "orig"
  /\ UNCHANGED <<recVars, botVars, vadVars, spVars, cleanVars, hVars>>

\* _compress_audio_file(audio_file_path) (218-268) and lines 109-123, 138-143:
\* the ORIGINAL file is compressed (audio_file_path, not audio_file). Success with size c: audio_file is the
\* compressed file, split it if c is still over the limit. Failure: the
\* temporary file stays, the original file is split.
TrCompress ==
  /\ tpc = "compress"
  /\ \E ok \in BOOLEAN, c \in Sizes :
       /\ ~ok => c = 10
       /\ compressed_file' = ok
       /\ tmpFiles' = tmpFiles \cup {Tmp("compressed", 0)}
       /\ audioFile' = IF ok THEN "compressed" ELSE audioFile
       /\ audioSize' = IF ok THEN c ELSE audioSize
       /\ splitSize' = IF ok THEN c ELSE origSize
       /\ tpc' = IF ok /\ c <= MaxSizeMB THEN "call" ELSE "probe"
  /\ UNCHANGED <<tsMode, origSize, enhanced_file, total_duration, estimated_segments,
                 splitIdx, segments, segPos, calls, transcriptions, all_segments, tResult>>
  /\ compressInput' = "orig"
  /\ UNCHANGED <<recVars, botVars, vadVars, spVars, cleanVars, hVars>>

\* the run ends with the message that the file is too large (lines 137, 147,
\* 854-859, 873-878); nothing is cleaned up
TooLarge == Transcript("toolarge", <<>>, <<>>)

\* _split_audio_file, lines 505-539: ffprobe fails (return []), or reports the
\* duration D, from which N and the chunk length follow
TrProbe ==
  /\ tpc = "probe"
  /\ \/ /\ tpc' = "done"
        /\ tResult' = TooLarge
        /\ UNCHANGED <<total_duration, estimated_segments, splitIdx, segments>>
     \/ /\ \E D \in Durations : total_duration' = D
        /\ estimated_segments' = EstimatedSegments(splitSize, TargetSizeMB)
        /\ splitIdx' = 0
        /\ segments' = <<>>
        /\ tpc' = "extract"
        /\ UNCHANGED tResult
  /\ UNCHANGED <<tsMode, origSize, enhanced_file, compressed_file, audioFile, audioSize,
                 tmpFiles, splitSize, segPos, calls, transcriptions, all_segments>>
  /\ UNCHANGED compressInput
  /\ UNCHANGED <<recVars, botVars, vadVars, spVars, cleanVars, hVars>>

\* the sizes ffmpeg -acodec copy can give chunk i: the packets of its time
\* range, so at most what the earlier chunks left of the source
ChunkSizes(segs) == {c \in Sizes : SumSizes(segs) + c <= splitSize}

\* one turn of the loop of lines 542-596: a temporary file is made; ffmpeg
\* either fills it (the chunk is appended) or fails (logged, the file stays,
\* the chunk is left out). After the last turn the list is returned: empty,
\* the run ends as too large; otherwise the chunks are transcribed.
TrExtract ==
  /\ tpc = "extract"
  /\ splitIdx < estimated_segments
  /\ \E c \in ChunkSizes(segments) \cup {0} :
       LET seg == [file_path |-> splitIdx,
                   start_time |-> StartTimeN(splitIdx, total_duration),
                   duration |-> DurationN(splitIdx, total_duration, estimated_segments),
                   segment_index |-> splitIdx,
                   size |-> c]
           segs == IF c > 0 THEN Append(segments, seg) ELSE segments
           last == splitIdx + 1 = estimated_segments
       IN /\ segments' = segs
          /\ tpc' = IF ~last THEN "extract" ELSE IF segs = <<>> THEN "done" ELSE "segcall"
          /\ tResult' = IF last /\ segs = <<>> THEN TooLarge ELSE tResult
  /\ tmpFiles' = tmpFiles \cup {Tmp("segment", splitIdx)}
  /\ splitIdx' = splitIdx + 1
  /\ segPos' = 1
  /\ UNCHANGED <<tsMode, origSize, enhanced_file, compressed_file, audioFile, audioSize,
                 splitSize, total_duration, estimated_segments, calls, transcriptions,
                 all_segments>>
  /\ UNCHANGED compressInput
  /\ UNCHANGED <<recVars, botVars, vadVars, spVars, cleanVars, hVars>>

\* a block without a label: the direct path, and the timestamped path, which
\* joins the texts with newlines only (line 719)
NoLabel == [mm |-> 0 - 1, ss |-> 0 - 1]

\* a label that shows the seconds of the offset only
TimeLabelSecondsOnly(start_timeN, N) ==
  [mm |-> 0, ss |-> (start_timeN \div N) % 60]

\* lines 633-639: minutes = int(start_time // 60), seconds = int(start_time % 60),
\* the label is [mm:ss]; start_time is start_timeN / N
TimeLabel(start_timeN, N) ==
  [mm |-> (start_timeN \div N) \div 60, ss |-> (start_timeN \div N) % 60]

\* lines 721-738: each reported segment shifted by the chunk's start_time
\* (times N, like the chunk times)
AdjustedSegments(reported, seg, N) ==
  [j \in 1..Len(reported) |->
     [chunk |-> seg.segment_index,
      start |-> reported[j].start * N + seg.start_time,
      end |-> reported[j].end * N + seg.start_time]]

\* what _transcribe_segments (659-672) / _transcribe_segments_with_timestamps
\* (755-773) return after the loop
SegmentsResult(blocks, segs) ==
  IF blocks = <<>> THEN Transcript("allfailed", <<>>, <<>>)
  ELSE Transcript("transcript", blocks, segs)

\* one turn of the loop of _transcribe_segments (610-649) or of
\* _transcribe_segments_with_timestamps (693-745): the chunk file is sent.
\*  "error": the exception leaves the loop, the except branch (674-682,
\*           775-788) returns the error text alone;
\*  "text":  a block (and the adjusted timestamp segments) is collected;
\*  "empty": nothing is collected.
\* After the last turn, or on the error, the cleanup loop runs and the caller
\* (126-135, 145, 841-852, 869-871) unlinks the compressed file if it split it.
TrSegCall ==
  /\ tpc = "segcall"
  /\ segPos <= Len(segments)
  /\ \E outcome \in {"text", "empty", "error"}, reported \in SegLists :
       LET seg == segments[segPos]
           blocks == IF outcome = "text"
                     THEN Append(transcriptions,
                                 [segment_index |-> seg.segment_index,
                                  start_time |-> seg.start_time,
                                  time_label |-> IF tsMode THEN NoLabel
                                                 ELSE TimeLabel(seg.start_time,
                                                                estimated_segments)])
                     ELSE transcriptions
           segs == IF outcome = "text"
                   THEN all_segments \o AdjustedSegments(reported, seg, estimated_segments)
                   ELSE all_segments
           last == segPos = Len(segments)
       IN /\ (outcome # "text" \/ ~tsMode) => reported = <<>>
          /\ calls' = Append(calls, [idx |-> seg.segment_index, size |-> seg.size,
                                     outcome |-> outcome, reported |-> reported])
          /\ IF outcome = "error"
             THEN /\ tResult' = Transcript("error", <<>>, <<>>)
                  /\ tpc' = "done"
                  /\ tmpFiles' = CompressedCleanup(SegmentCleanup(tmpFiles, segments),
                                                   compressed_file)
                  /\ UNCHANGED <<transcriptions, all_segments, segPos>>
             ELSE /\ transcriptions' = blocks
                  /\ all_segments' = segs
                  /\ segPos' = segPos + 1
                  /\ IF last
                     THEN /\ tResult' = SegmentsResult(blocks, segs)
                          /\ tpc' = "done"
                          /\ tmpFiles' = CompressedCleanup(SegmentCleanup(tmpFiles, segments),
                                                           compressed_file)
                     ELSE UNCHANGED <<tResult, tpc, tmpFiles>>
  /\ UNCHANGED <<tsMode, origSize, enhanced_file, compressed_file, audioFile, audioSize,
                 splitSize, total_duration, estimated_segments, splitIdx, segments>>
  /\ UNCHANGED compressInput
  /\ UNCHANGED <<recVars, botVars, vadVars, spVars, cleanVars, hVars>>

\* lines 149-216 / 880-946: the whole audio_file is sent in one call.
\*  "error": the OpenAIError branch ("apierror") or the Exception branch
\*           ("unexpected") returns its error text, nothing is unlinked;
\*  "empty": transcribe returns its failure text before the cleanup (175-177);
\*           transcribe_with_timestamps has no such test and goes on as for text;
\*  "text":  the enhanced and the compressed file are unlinked, the text is returned.
TrCall ==
  /\ tpc = "call"
  /\ \E outcome \in {"text", "empty", "error"}, reported \in SegLists :
       /\ (outcome # "text" \/ ~tsMode) => reported = <<>>
       /\ calls' = Append(calls, [idx |-> Whole, size |-> audioSize,
                                  outcome |-> outcome, reported |-> reported])
       /\ IF outcome = "error"
          THEN /\ \E kind \in {"apierror", "unexpected"} :
                    tResult' = Transcript(kind, <<>>, <<>>)
               /\ UNCHANGED tmpFiles
          ELSE IF outcome = "empty" /\ ~tsMode
          THEN /\ tResult' = Transcript("allfailed", <<>>, <<>>)
               /\ UNCHANGED tmpFiles
          ELSE /\ tResult' = Transcript("transcript",
                                        <<[segment_index |-> Whole, start_time |-> 0,
                                           time_label |-> NoLabel]>>,
                                        [j \in 1..Len(reported) |->
                                           [chunk |-> Whole, start |-> reported[j].start,
                                            end |-> reported[j].end]])
               /\ tmpFiles' = DirectCleanup(tmpFiles, enhanced_file, compressed_file)
  /\ tpc' = "done"
  /\ UNCHANGED <<tsMode, origSize, enhanced_file, compressed_file, audioFile, audioSize,
                 splitSize, total_duration, estimated_segments, splitIdx, segments, segPos,
                 transcriptions, all_segments>>
  /\ UNCHANGED compressInput
  /\ UNCHANGED <<recVars, botVars, vadVars, spVars, cleanVars, hVars>>

\* Transcriber.transcribe(audio_file, guild_id = ...) as main.py and
\* tests/test_transcriber.py use it: the text of provider.transcribe is
\* handed on as it is
TranscriberTranscribe(providerResult) == providerResult

\* main.py line 204: transcription.startswith("音声の文字起こしで"). Of the
\* texts transcribe returns only the one of the OpenAIError branch
\* ("音声の文字起こしでAPIエラーが発生しました: ...") begins so; "音声ファイルが
\* 大きすぎます ...", "音声の文字起こしに失敗しました。", "音声の文字起こし中に
\* ...", "分割音声の ..." and "分割された ..." do not.
StartsWithFailurePrefix(result) == result.kind = "apierror"

\* main.py lines 200-212 (and 312-318, 450-456): the handler takes the text
\* of transcribe; with the failure prefix it reports the failure and
\* returns, otherwise it generates the minutes from the text
StopTranscribed ==
  /\ tpc = "done"
  /\ ~tsMode
  /\ hpc = "waiting"
  /\ hpc' = IF StartsWithFailurePrefix(TranscriberTranscribe(tResult))
            THEN "failed" ELSE "minutes"
  /\ UNCHANGED <<recVars, botVars, trVars, vadVars, spVars, cleanVars>>

TrNext ==
  \/ TrBegin
  \/ TrEnhance
  \/ TrCompress
  \/ TrProbe
  \/ TrExtract
  \/ TrSegCall
  \/ TrCall
  \/ StopTranscribed

(***************************************************************************)
(* SpeakerAnalyzer._detect_voice_activity (SpecVad). Times are in ms.      *)
(***************************************************************************)
\* speech_start is None
NoStart == 0 - 1

\* tracks of twice the length: silence but for one run of loud windows a..b,
\* or for two runs a..b and c..d with silence between them
RunTracks ==
  LET L == 2 * MaxWindows
  IN UNION {UNION {{[i \in 1..L |-> a <= i /\ i <= b]} \cup
                   UNION {{[i \in 1..L |-> (a <= i /\ i <= b) \/ (c <= i /\ i <= d)] :
                             d \in c..L} : c \in (b + 2)..L} : b \in a..L} : a \in 1..L}

\* every track of up to MaxWindows windows, and the run tracks
Tracks == UNION {[1..n -> BOOLEAN] : n \in 0..MaxWindows} \cup RunTracks
Tails == {0, 50}

\* lines 190, 194-195, 205-206: speech_start = i / 1000.0, speech_end =
\* j / 1000.0, duration = (speech_end - speech_start) * 1000, in IEEE-754
\* doubles. For these (i, j) with j - i = 1000 the product is just below
\* 1000 (999.9999999999999 for 0.4 and 1.4); for every other pair of the
\* model the rounding error cannot change the comparison with the integer
\* min_speech_duration.
RoundsBelow == {<<400, 1400>>, <<900, 1900>>, <<1300, 2300>>, <<1800, 2800>>}

\* a detection that keeps every run, however short
DurationReachesAlways(speech_start, speech_end, min_speech_duration) == TRUE

\* lines 198, 207: duration >= min_speech_duration
DurationReaches(speech_start, speech_end, min_speech_duration) ==
  IF <<speech_start, speech_end>> \in RoundsBelow
  THEN speech_end - speech_start > min_speech_duration
  ELSE speech_end - speech_start >= min_speech_duration

\* the loop of lines 178-201 over the full windows, window i (1-based)
\* beginning at (i - 1) * chunk_length
RECURSIVE VadScan(_, _, _, _)
VadScan(track, i, speech_start, segs) ==
  IF i > Len(track) THEN [speech_start |-> speech_start, segments |-> segs]
  ELSE LET t == (i - 1) * ChunkLength
       IN IF track[i]
          THEN VadScan(track, i + 1, IF speech_start = NoStart THEN t ELSE speech_start, segs)
          ELSE IF speech_start # NoStart
               THEN VadScan(track, i + 1, NoStart,
                            IF DurationReaches(speech_start, t, MinSpeechMs)
                            THEN Append(segs, [start |-> speech_start, end |-> t])
                            ELSE segs)
               ELSE VadScan(track, i + 1, NoStart, segs)

\* _detect_voice_activity, lines 164-210: the loop, then the open run is
\* closed at len(audio)
DetectVoiceActivity(track, tail) ==
  LET r == VadScan(track, 1, NoStart, <<>>)
      len == Len(track) * ChunkLength + tail
  IN IF r.speech_start # NoStart /\ DurationReaches(r.speech_start, len, MinSpeechMs)
     THEN Append(r.segments, [start |-> r.speech_start, end |-> len])
     ELSE r.segments

\* an AudioSegment is handed to _detect_voice_activity
VadLoad ==
  /\ vpc = "idle"
  /\ \E track \in Tracks, tail \in Tails :
       /\ vTrack' = track
       /\ vTail' = tail
  /\ vpc' = "loaded"
  /\ UNCHANGED vSegments
  /\ UNCHANGED <<recVars, botVars, trVars, spVars, cleanVars, hVars>>

\* _detect_voice_activity runs and returns
VadDetect ==
  /\ vpc = "loaded"
  /\ vSegments' = DetectVoiceActivity(vTrack, vTail)
  /\ vpc' = "done"
  /\ UNCHANGED <<vTrack, vTail>>
  /\ UNCHANGED <<recVars, botVars, trVars, spVars, cleanVars, hVars>>

VadNext ==
  \/ VadLoad
  \/ VadDetect

(***************************************************************************)
(* SpeakerAnalyzer.analyze_recording_with_speakers (SpecSp)                *)
(***************************************************************************)
Users == 1..MaxUsers

\* lists of distinct users
UserLists == {l \in UNION {[1..n -> Users] : n \in 0..MaxUsers} :
                \A i, j \in 1..Len(l) : i # j => l[i] # l[j]}

Transcriptions == UNION {[1..n -> {0, 1}] : n \in 1..MaxPieces}

\* the tracks of the members: silence, a tone from the start, a tone to the end
SampleTracks == {[i \in 1..MaxWindows |-> FALSE],
                 [i \in 1..MaxWindows |-> i <= 10],
                 [i \in 1..MaxWindows |-> i >= 2]}

InList(l, u) == \E i \in 1..Len(l) : l[i] = u

\* transcription.strip() is not empty: a sentence mark or a non-blank piece
StripNonEmpty(tr) == Len(tr) >= 2 \/ tr[1] # 0

\* line 236: [s.strip() for s in transcription.split('。') if s.strip()],
\* each sentence named by the position of its piece
RECURSIVE SentencesFrom(_, _)
SentencesFrom(tr, i) ==
  IF i > Len(tr) THEN <<>>
  ELSE (IF tr[i] # 0 THEN <<i>> ELSE <<>>) \o SentencesFrom(tr, i + 1)

Sentences(tr) == SentencesFrom(tr, 1)

\* _create_single_segment, lines 262-279; the text is the whole transcription
CreateSingleSegment(tr, parts) ==
  IF parts = <<>> \/ ~StripNonEmpty(tr) THEN <<>>
  ELSE <<[user_id |-> parts[1], start_time |-> 0, end_time |-> 0, text |-> Sentences(tr)]>>

\* lines 226-231: the intervals of every user of the dict who is a participant
RECURSIVE AllActivities(_, _)
AllActivities(acts, parts) ==
  IF acts = <<>> THEN <<>>
  ELSE (IF InList(parts, Head(acts).user_id)
        THEN [k \in 1..Len(Head(acts).intervals) |->
                [start |-> Head(acts).intervals[k].start,
                 end |-> Head(acts).intervals[k].end,
                 user_id |-> Head(acts).user_id]]
        ELSE <<>>) \o AllActivities(Tail(acts), parts)

\* line 233: list.sort(key = start), a stable sort
RECURSIVE InsertByStart(_, _)
InsertByStart(sorted, a) ==
  IF sorted = <<>> THEN <<a>>
  ELSE IF a.start < Head(sorted).start THEN <<a>> \o sorted
  ELSE <<Head(sorted)>> \o InsertByStart(Tail(sorted), a)

RECURSIVE SortByStart(_)
SortByStart(l) ==
  IF l = <<>> THEN <<>>
  ELSE InsertByStart(SortByStart(SubSeq(l, 1, Len(l) - 1)), l[Len(l)])

MaxOf(a, b) == IF a >= b THEN a ELSE b
MinOf(a, b) == IF a <= b THEN a ELSE b

\* the loop of lines 244-258, i counted from 0
RECURSIVE AssignFrom(_, _, _, _)
AssignFrom(all, sents, text_per_segment, i) ==
  IF i >= Len(all) THEN <<>>
  ELSE LET start_idx == i * text_per_segment
           end_idx == MinOf((i + 1) * text_per_segment, Len(sents))
       IN (IF start_idx < Len(sents)
           THEN <<[user_id |-> all[i + 1].user_id,
                   start_time |-> all[i + 1].start,
                   end_time |-> all[i + 1].end,
                   text |-> SubSeq(sents, start_idx + 1, end_idx)]>>
           ELSE <<>>) \o AssignFrom(all, sents, text_per_segment, i + 1)

\* _assign_text_to_speakers, lines 212-260
AssignTextToSpeakers(tr, acts, parts) ==
  IF acts = <<>> THEN CreateSingleSegment(tr, parts)
  ELSE LET all == SortByStart(AllActivities(acts, parts))
           sents == Sentences(tr)
       IN IF sents = <<>> THEN <<>>
          ELSE AssignFrom(all, sents,
                          MaxOf(1, Len(sents) \div MaxOf(1, Len(all))), 0)

\* analyze_recording_with_speakers is called with the members and the
\* transcription
SpBegin ==
  /\ spc = "idle"
  /\ \E parts \in UserLists, tr \in Transcriptions :
       /\ participants' = parts
       /\ transcription' = tr
  /\ spc' = "extract"
  /\ UNCHANGED <<speaker_audio_files, speaker_activities, speaker_segments, spTempFiles>>
  /\ UNCHANGED <<recVars, botVars, trVars, vadVars, cleanVars, hVars>>

\* _cleanup_temp_files, lines 326-334: the files of the dict are unlinked
CleanupTempFiles(onDisk, files) == onDisk \ {files[i] : i \in 1..Len(files)}

\* _extract_individual_audio, lines 95-140, for each user of the sink who is
\* a participant: a temporary file is made (116-119); the track decodes and
\* is long enough (the file is filled and entered in the dict, 130-131), or
\* it is too short (the file is unlinked, 125-128), or decoding or export
\* raises (undecoded: the except of 135-137 goes on to the next user, the
\* file stays and is not in the dict)
SpExtract ==
  /\ spc = "extract"
  /\ \E files \in UserLists, undecoded \in SUBSET Users :
       /\ \A i \in 1..Len(files) : InList(participants, files[i])
       /\ \A u \in undecoded : InList(participants, u) /\ ~InList(files, u)
       /\ speaker_audio_files' = files
       /\ spTempFiles' = {files[i] : i \in 1..Len(files)} \cup undecoded
  /\ spc' = "detect"
  /\ UNCHANGED <<participants, transcription, speaker_activities, speaker_segments>>
  /\ UNCHANGED <<recVars, botVars, trVars, vadVars, cleanVars, hVars>>

\* _detect_speech_activities, lines 142-162: for every file the intervals of
\* its track, or [] when reading it raises
SpDetect ==
  /\ spc = "detect"
  /\ \E track \in [1..Len(speaker_audio_files) -> SampleTracks],
        raises \in SUBSET (1..Len(speaker_audio_files)) :
       speaker_activities' =
         [i \in 1..Len(speaker_audio_files) |->
            [user_id |-> speaker_audio_files[i],
             intervals |-> IF i \in raises THEN <<>>
                           ELSE DetectVoiceActivity(track[i], 0)]]
  /\ spc' = "assign"
  /\ UNCHANGED <<participants, transcription, speaker_audio_files, speaker_segments,
                 spTempFiles>>
  /\ UNCHANGED <<recVars, botVars, trVars, vadVars, cleanVars, hVars>>

\* lines 76-88: _assign_text_to_speakers, the statistics, _cleanup_temp_files,
\* and the list is returned
SpAssign ==
  /\ spc = "assign"
  /\ speaker_segments' = AssignTextToSpeakers(transcription, speaker_activities, participants)
  /\ spTempFiles' = CleanupTempFiles(spTempFiles, speaker_audio_files)
  /\ spc' = "assigned"
  /\ UNCHANGED <<participants, transcription, speaker_audio_files, speaker_activities>>
  /\ UNCHANGED <<recVars, botVars, trVars, vadVars, cleanVars, hVars>>

\* lines 64-66 and 90-93: identification is switched off, or the extraction
\* raised on the sink before it made a file (line 104): the whole
\* transcription as one segment; _cleanup_temp_files is not called. The later
\* steps catch their own errors (135-137, 157-160, 332-334) and raise
\* nothing on a transcription string and a list of members.
SpSingle ==
  /\ spc = "extract"
  /\ speaker_segments' = CreateSingleSegment(transcription, participants)
  /\ spc' = "single"
  /\ UNCHANGED spTempFiles
  /\ UNCHANGED <<participants, transcription, speaker_audio_files, speaker_activities>>
  /\ UNCHANGED <<recVars, botVars, trVars, vadVars, cleanVars, hVars>>

SpNext ==
  \/ SpBegin
  \/ SpExtract
  \/ SpDetect
  \/ SpAssign
  \/ SpSingle

(***************************************************************************)
(* VoiceRecorder.cleanup_old_recordings (SpecClean). Ages are in hours.    *)
(***************************************************************************)
\* ages in steps of half a day
Ages == {(HoursPerDay \div 2) * k : k \in 0..(2 * (MaxAgeDays + 2))}

DirFile(recording, age) == [recording |-> recording, age |-> age]

Directories ==
  UNION {[1..n -> {DirFile(r, a) : r \in BOOLEAN, a \in Ages}] : n \in 0..MaxFiles}

\* line 152: file_age.days, the whole days of the age
AgeDays(age) == age \div HoursPerDay

\* the loop of lines 151-155 from file i on. Files that do not match the glob
\* are not visited; a matching file with file_age.days > max_age_days is
\* unlinked. failAt: the position whose unlink raises (0: none); the except
\* of line 156 then ends the sweep.
RECURSIVE SweepFrom(_, _, _, _)
SweepFrom(files, i, max_age, failAt) ==
  IF i > Len(files) THEN <<>>
  ELSE IF files[i].recording /\ AgeDays(files[i].age) > max_age
       THEN IF i = failAt
            THEN [k \in 1..(Len(files) - i + 1) |-> TRUE]
            ELSE <<FALSE>> \o SweepFrom(files, i + 1, max_age, failAt)
       ELSE <<TRUE>> \o SweepFrom(files, i + 1, max_age, failAt)

\* cleanup_old_recordings(max_age_days) is called on a directory
CleanupCall ==
  /\ cpc = "idle"
  /\ \E d \in Directories, m \in 0..MaxAgeDays :
       /\ dirFiles' = d
       /\ max_age_days' = m
  /\ cpc' = "called"
  /\ UNCHANGED dirKept
  /\ UNCHANGED <<recVars, botVars, trVars, vadVars, spVars, hVars>>

\* lines 149-157: the sweep runs and returns
CleanupSweep ==
  /\ cpc = "called"
  /\ \E failAt \in 0..Len(dirFiles) :
       dirKept' = SweepFrom(dirFiles, 1, max_age_days, failAt)
  /\ cpc' = "done"
  /\ UNCHANGED <<dirFiles, max_age_days>>
  /\ UNCHANGED <<recVars, botVars, trVars, vadVars, spVars, hVars>>

CleanNext ==
  \/ CleanupCall
  \/ CleanupSweep

(***************************************************************************)
(* Initial state and specifications                                        *)
(***************************************************************************)
\* the state after construction: VoiceRecorder.__init__ (voice_recorder.py
\* 14-19) and the module state of main.py (69-75)
Init ==
  /\ sink = NoSink
  /\ recording_finished = FALSE
  /\ rpc = "idle"
  /\ wait_time = 0
  /\ cbPending = FALSE
  /\ outDir = {}
  /\ stopResult = NoResult
  /\ wasRecording = FALSE
  /\ recording_status = [g \in Guilds |-> FALSE]
  /\ voice_client = [g \in Guilds |-> FALSE]
  /\ session = [g \in Guilds |-> "Idle"]
  /\ recordPc = [g \in Guilds |-> [k \in RecordHandlers |-> "idle"]]
  /\ stopPc = [g \in Guilds |-> "idle"]
  /\ sinkOwner = 0
  /\ tpc = "idle"
  /\ tsMode = FALSE
  /\ origSize = 0
  /\ enhanced_file = FALSE
  /\ compressed_file = FALSE
  /\ compressInput = "none"
  /\ audioFile = "orig"
  /\ audioSize = 0
  /\ tmpFiles = {}
  /\ splitSize = 0
  /\ total_duration = 0
  /\ estimated_segments = 0
  /\ splitIdx = 0
  /\ segments = <<>>
  /\ segPos = 0
  /\ calls = <<>>
  /\ transcriptions = <<>>
  /\ all_segments = <<>>
  /\ tResult = NoTranscript
  /\ hpc = "waiting"
  /\ vpc = "idle"
  /\ vTrack = <<>>
  /\ vTail = 0
  /\ vSegments = <<>>
  /\ spc = "idle"
  /\ participants = <<>>
  /\ transcription = <<0>>
  /\ speaker_audio_files = <<>>
  /\ speaker_activities = <<>>
  /\ speaker_segments = <<>>
  /\ spTempFiles = {}
  /\ cpc = "idle"
  /\ dirFiles = <<>>
  /\ max_age_days = 0
  /\ dirKept = <<>>

SpecRec == Init /\ [][RecNext]_vars

\* asyncio resumes stop_recording when its sleep is over
SpecRecLive ==
  Init /\ [][RecNext]_vars /\ WF_vars(WaitTick) /\ WF_vars(StopMerge)

SpecBot == Init /\ [][BotNext]_vars

SpecTr == Init /\ [][TrNext]_vars

SpecVad == Init /\ [][VadNext]_vars

SpecSp == Init /\ [][SpNext]_vars

SpecClean == Init /\ [][CleanNext]_vars

(***************************************************************************)
(* Claims about the recorder (checked under SpecRec)                       *)
(***************************************************************************)
\* some captured track of the sink is non-empty
SomeAudio(s) == \E i \in 1..Len(s.audio_data) : s.audio_data[i] > 0

\* C2: when stop_recording has finished for a session in which at least one
\* captured track is non-empty, it has returned an artifact that is on disk
\* with more than 0 bytes; the only other outcome is the write failure
\* (IOFailure) raised to the caller. A returned artifact is never empty.
C2_StopReturnsNonEmptyArtifact ==
  /\ (rpc = "done" /\ SomeAudio(sink)) =>
        \/ /\ stopResult.outcome = "returned"
           /\ stopResult.size > 0
           /\ stopResult.file = stopResult.size
           /\ stopResult.size \in outDir
        \/ /\ stopResult.outcome = "raised"
           /\ stopResult.error = "io"
  /\ stopResult.outcome = "returned" => stopResult.size > 0

\* C2 witness: a stop has returned for a session of several tracks whose first
\* track is empty and another one is not
C2_Witness ==
  /\ rpc = "done"
  /\ Len(sink.audio_data) >= 2
  /\ sink.audio_data[1] = 0
  /\ SomeAudio(sink)
  /\ stopResult.outcome = "returned"
  /\ stopResult.size > 0

\* C3: when no participant captured any audio (no track, or only zero-byte
\* tracks), stop_recording raises and the stop has written no zero-byte file
\* into the output directory.
C3_EmptyRecordingRaisesAndWritesNothing ==
  (rpc = "done" /\ ~SomeAudio(sink)) =>
     /\ stopResult.outcome = "raised"
     /\ stopResult.file # 0

\* tracks of the sink that hold audio
NonEmptyTracks(s) == {i \in 1..Len(s.audio_data) : s.audio_data[i] > 0}

\* C14: when stop merges several non-empty tracks and returns an artifact,
\* the artifact is the mix of all tracks, not the data of one track.
C14_ArtifactIsMixOfAllTracks ==
  (rpc = "done" /\ stopResult.outcome = "returned"
     /\ Cardinality(NonEmptyTracks(sink)) >= 2) =>
        stopResult.user \notin 1..Len(sink.audio_data)

\* C15: the wait for the callback lasts at most 10 s of half-second polls;
\* when it ends, with or without the callback, stop goes on to the merge and
\* its outcome is the outcome of the merge; and the wait always ends.
C15_WaitIsBoundedAndNotFatal ==
  /\ [](wait_time <= 2 * WaitLimit)
  /\ [][(rpc = "waiting" /\ rpc' # "waiting") =>
          /\ rpc' = "done"
          /\ \E w1 \in BOOLEAN, w2 \in BOOLEAN :
               stopResult' = MergeAudioFiles(sink, w1, w2)]_vars
  /\ (rpc = "waiting" ~> rpc = "done")

\* the callback never came, the wait ran out, and stop returned the artifact
C15_Witness ==
  /\ rpc = "done"
  /\ wasRecording
  /\ ~recording_finished
  /\ wait_time = 2 * WaitLimit
  /\ stopResult.outcome = "returned"

\* C19: a stop_recording called while the voice client is not recording
\* ends with the error that nothing is being recorded, without a merge and
\* without a file written.
C19_StopWhenNotRecordingRaises ==
  (~wasRecording /\ rpc \in {"waiting", "done", "refused"}) =>
     /\ rpc = "refused"
     /\ stopResult = Raised("notrecording", NoFile)

\* C20: after the sweep every recording_*.wav file older than max_age_days
\* is gone and every recording_*.wav file not older than that is still there.
C20_SweepDeletesExactlyTheOldFiles ==
  cpc = "done" =>
     \A i \in 1..Len(dirFiles) :
        dirFiles[i].recording =>
           (dirKept[i] <=> dirFiles[i].age <= max_age_days * HoursPerDay)

(***************************************************************************)
(* Claims about the command handlers (checked under SpecBot)               *)
(***************************************************************************)
\* C4: under every interleaving of the handlers, no !record handler begins a
\* capture (runs voice_recorder.start_recording, line 136) for a guild whose
\* capture is already active: a second start comes only after a stop.
C4_NoSecondCaptureWithoutStop ==
  [][\A g \in Guilds, k \in RecordHandlers :
       (recordPc[g][k] = "sleeping" /\ recordPc'[g][k] # "sleeping")
          => session[g] # "Recording"]_vars

\* C5: whenever a guild's recording flag goes from set to cleared, the capture
\* of that guild has been stopped through the recorder's stop operation: the
\* session is not left in Recording.
C5_FlagClearedOnlyAfterStop ==
  [][\A g \in Guilds :
       (recording_status[g] /\ ~recording_status'[g])
          => session'[g] # "Recording"]_vars

(***************************************************************************)
(* Claims about the transcription pipeline (checked under SpecTr)          *)
(***************************************************************************)
\* the run went through the chunks: its first call sent a chunk file
Segmented == calls # <<>> /\ calls[1].idx # Whole

\* _split_audio_file has returned its list
SplitReturned ==
  /\ tpc \in {"segcall", "done"}
  /\ estimated_segments > 0
  /\ splitIdx = estimated_segments

\* C1: in the segmented path a service failure on one chunk does not end the
\* run: every chunk is still sent, the failed chunk has an entry of its own in
\* the returned transcript, and every chunk that gave text has its block in
\* the returned transcript.
C1_FailedChunkKeepsTranscript ==
  (tpc = "done" /\ Segmented) =>
     /\ \A i \in 1..Len(segments) :
          \E j \in 1..Len(calls) : calls[j].idx = segments[i].segment_index
     /\ \A j \in 1..Len(calls) :
          calls[j].outcome \in {"text", "error"} =>
             \E b \in 1..Len(tResult.blocks) :
                tResult.blocks[b].segment_index = calls[j].idx

\* C6: every file sent to the transcription service, whole or chunk, is at
\* most 25 MB.
C6_EveryCallUnderCeiling ==
  \A j \in 1..Len(calls) : calls[j].size <= MaxSizeMB

\* C7: once transcribe / transcribe_with_timestamps has returned, none of the
\* temporary files made by enhancement, compression or splitting is left.
C7_NoTempFileAfterReturn ==
  tpc = "done" => tmpFiles = {}

\* C8: for a duration D > 0 the returned chunk list starts at 0, each chunk
\* starts where the previous one ends, and the last one ends at D (times are
\* numerators over estimated_segments, so D is estimated_segments * D).
C8_ChunksCoverDuration ==
  (SplitReturned /\ total_duration > 0) =>
     /\ segments # <<>>
     /\ segments[1].start_time = 0
     /\ \A i \in 1..(Len(segments) - 1) :
          segments[i].start_time + segments[i].duration = segments[i + 1].start_time
     /\ segments[Len(segments)].start_time + segments[Len(segments)].duration
          = estimated_segments * total_duration

\* C9: in the segmented path the service is called exactly once per chunk of
\* the list, in the order of the list (increasing chunk index), and the blocks
\* of the returned transcript are in increasing chunk index.
C9_OneCallPerChunkInOrder ==
  (tpc = "done" /\ Segmented) =>
     /\ Len(calls) = Len(segments)
     /\ \A i \in 1..Len(calls) : calls[i].idx = segments[i].segment_index
     /\ \A i \in 1..(Len(calls) - 1) : calls[i].idx < calls[i + 1].idx
     /\ \A b \in 1..(Len(tResult.blocks) - 1) :
          tResult.blocks[b].segment_index < tResult.blocks[b + 1].segment_index

\* C10: in the segmented timestamped path every segment the service reported
\* for a chunk, with chunk-relative times t1 and t2, is in the result with
\* start T + t1 and end T + t2, T being the start time of that chunk.
C10_ReportedSegmentsAreOffset ==
  (tpc = "done" /\ tsMode /\ Segmented) =>
     \A j \in 1..Len(calls) :
        \A r \in 1..Len(calls[j].reported) :
           \E k \in 1..Len(tResult.segments) :
              tResult.segments[k] =
                 [chunk |-> calls[j].idx,
                  start |-> calls[j].reported[r].start * estimated_segments
                              + StartTimeN(calls[j].idx, total_duration),
                  end |-> calls[j].reported[r].end * estimated_segments
                            + StartTimeN(calls[j].idx, total_duration)]

\* order of two labels as times
LabelLeq(a, b) == a.mm < b.mm \/ (a.mm = b.mm /\ a.ss <= b.ss)

NoIntervals(acts) == \A i \in 1..Len(acts) : acts[i].intervals = <<>>

\* C12: when the detection yields no interval for any participant, a
\* non-empty transcription with at least one participant comes back as one
\* segment, the whole transcription attributed to the first participant.
C12_NoIntervalsGiveSingleSegment ==
  (spc = "assigned" /\ NoIntervals(speaker_activities)
     /\ participants # <<>> /\ StripNonEmpty(transcription)) =>
        /\ Len(speaker_segments) = 1
        /\ speaker_segments[1].user_id = participants[1]
        /\ speaker_segments[1].text = Sentences(transcription)

\* the track is silence but for one run of loud windows, windows a..b
OneRun(track, a, b) ==
  /\ a <= b
  /\ \A i \in 1..Len(track) : track[i] <=> (a <= i /\ i <= b)

\* C13: a track with no window above the threshold gives no interval; a
\* track with one run of windows above the threshold that lasts at least
\* the minimum speech duration gives exactly one interval, from the start
\* of the run to its end (the end of the audio when the run reaches the
\* last full window).
C13_VadSilenceAndSingleTone ==
  vpc = "done" =>
     /\ (\A i \in 1..Len(vTrack) : ~vTrack[i]) => vSegments = <<>>
     /\ \A a, b \in 1..Len(vTrack) :
          (OneRun(vTrack, a, b) /\ (b - a + 1) * ChunkLength >= MinSpeechMs) =>
             vSegments = <<[start |-> (a - 1) * ChunkLength,
                            end |-> IF b = Len(vTrack)
                                    THEN Len(vTrack) * ChunkLength + vTail
                                    ELSE b * ChunkLength]>>

C18_WithinBudgetOneCall ==
  (tpc = "done" /\ audioSize <= MaxSizeMB) =>
     /\ Len(calls) = 1
     /\ calls[1].idx = Whole
     /\ calls[1].size = audioSize
     /\ estimated_segments = 0 /\ segments = <<>>
     /\ \A f \in tmpFiles : f.kind # "segment"
     /\ calls[1].outcome = "text" =>
          /\ tResult.kind = "transcript"
          /\ Len(tResult.blocks) = 1
          /\ tResult.blocks[1].segment_index = Whole

\* a file over the limit, compressed under it, sent in one call that gave text
C18_Witness ==
  /\ tpc = "done"
  /\ ~tsMode
  /\ compressed_file
  /\ origSize > MaxSizeMB
  /\ audioSize <= MaxSizeMB
  /\ Len(calls) = 1
  /\ tResult.kind = "transcript"

(***************************************************************************)
(* Claims about the segmentation plan and the chunk files (SpecTr)         *)
(***************************************************************************)
\* _split_audio_file has computed its plan
Planned == estimated_segments > 0

\* C21 as stated: for a file of size S the plan has N = ceil(S / 25) + 1
\* chunks, that is (N - 2) * 25 < S <= (N - 1) * 25.
C21_ChunkCountIsCeilOverBudget ==
  Planned =>
     /\ (estimated_segments - 2) * MaxSizeMB < splitSize
     /\ splitSize <= (estimated_segments - 1) * MaxSizeMB

\* C21 amended: for a file of size S and the chunk target T = 20 MB the plan
\* has N = floor(S / T) + 1 chunks, (N - 1) * T <= S < N * T; chunk i starts
\* at i * D / N, every chunk but the last is D / N long and the last one ends
\* at D (times are numerators over N).
C21_ChunkCountIsFloorOverTarget ==
  Planned =>
     /\ (estimated_segments - 1) * TargetSizeMB <= splitSize
     /\ splitSize < estimated_segments * TargetSizeMB
     /\ \A i \in 1..Len(segments) :
          LET seg == segments[i]
          IN /\ seg.start_time = seg.segment_index * total_duration
             /\ seg.segment_index < estimated_segments - 1 =>
                  seg.duration = total_duration
             /\ seg.segment_index = estimated_segments - 1 =>
                  seg.start_time + seg.duration = estimated_segments * total_duration

\* a 30 MB file was split: two chunks were planned and both were made
C21_Witness ==
  /\ SplitReturned
  /\ splitSize = 30
  /\ total_duration > 0
  /\ estimated_segments = 2
  /\ Len(segments) = 2

\* C22: in the segmented path the temporary file of a chunk is gone as soon
\* as the attempt to transcribe that chunk is over, with text, without text or
\* with an error, so it is on disk in no state that follows its attempt (the
\* next chunk's attempt included).
C22_ChunkFileGoneAfterItsAttempt ==
  \A j \in 1..Len(calls) :
     calls[j].idx # Whole => Tmp("segment", calls[j].idx) \notin tmpFiles

\* C23: when the enhancement and the compression both succeeded, the
\* compression was given the enhanced file, and the enhanced file it replaced
\* is not on disk next to the compressed one.
C23_StagesAreChained ==
  (enhanced_file /\ compressed_file) =>
     /\ compressInput = "enhanced"
     /\ ~(Tmp("enhanced", 0) \in tmpFiles /\ Tmp("compressed", 0) \in tmpFiles)

(***************************************************************************)
(* Further claims about the recorder (SpecRec)                             *)
(***************************************************************************)
\* C24: an artifact that stop returns as the data of one track is the data
\* of a track of greatest byte size among the captured tracks, also when the
\* first write failed and the fallback wrote the file.
C24_ReturnedTrackIsLargest ==
  (rpc = "done" /\ stopResult.outcome = "returned") =>
     /\ stopResult.user \in 1..Len(sink.audio_data)
     /\ stopResult.size = sink.audio_data[stopResult.user]
     /\ \A i \in 1..Len(sink.audio_data) : sink.audio_data[i] <= stopResult.size

(***************************************************************************)
(* Further claims about the voice-activity detection (SpecVad)             *)
(***************************************************************************)
\* C25: the intervals _detect_voice_activity returns for a track are in
\* increasing time order, no two of them overlap (each ends before the next
\* one starts), each lies within the audio and each lasts at least the
\* minimum speech duration.
C25_IntervalsOrderedDisjointLongEnough ==
  vpc = "done" =>
     /\ \A k \in 1..Len(vSegments) :
          /\ 0 <= vSegments[k].start
          /\ vSegments[k].end <= Len(vTrack) * ChunkLength + vTail
          /\ vSegments[k].end - vSegments[k].start >= MinSpeechMs
     /\ \A k \in 1..(Len(vSegments) - 1) :
          /\ vSegments[k].start < vSegments[k + 1].start
          /\ vSegments[k].end < vSegments[k + 1].start

\* a track gave two intervals, the second one open at the end of the audio
C25_Witness ==
  /\ vpc = "done"
  /\ Len(vSegments) = 2
  /\ vTail > 0
  /\ vSegments[2].end = Len(vTrack) * ChunkLength + vTail

\* C27: the flag that ends the flush wait is set only by the callback of the
\* session being stopped. A session that is still recording is never marked
\* finished (a callback that fires then belongs to an earlier session), and
\* in the wait of a stopped capture the flag is set only once that stop's own
\* callback has been delivered.
C27_OnlyOwnCallbackEndsWait ==
  /\ rpc = "recording" => ~recording_finished
  /\ (rpc = "waiting" /\ wasRecording /\ recording_finished) => ~cbPending

(***************************************************************************)
(* Further claims about the command handlers (SpecBot)                     *)
(***************************************************************************)
\* C26: when the stop of a guild ends its wait and its merge gives the
\* artifact, the sink the recorder merges is the one that guild's own !record
\* created: no !record or !stop of another guild has replaced it, also while
\* both guilds have a session.
C26_StopMergesOwnGuildSink ==
  [][\A g \in Guilds :
       (stopPc[g] = "waiting" /\ stopPc'[g] = "processing") => sinkOwner = g]_vars

\* no handler of the guild is between two of its awaits
Quiet(g) ==
  /\ stopPc[g] = "idle"
  /\ \A k \in RecordHandlers : recordPc[g][k] = "idle"

\* C28: once every handler of a guild has ended, by whatever exit, and after
\* a disconnect that no stop command made, the guild's recording flag is not
\* set while the guild has no voice client (the state in which !record
\* answers 'already recording' and !stop answers 'not recording').
C28_NoGuildLeftStuck ==
  \A g \in Guilds : Quiet(g) => ~(recording_status[g] /\ ~voice_client[g])

(***************************************************************************)
(* Further claims about the speaker analysis (SpecSp)                      *)
(***************************************************************************)
\* the sentences of the returned segments, joined in segment order
RECURSIVE JoinedTexts(_)
JoinedTexts(segs) ==
  IF segs = <<>> THEN <<>> ELSE Head(segs).text \o JoinedTexts(Tail(segs))

\* the turns: the intervals of all participants, as _assign_text_to_speakers
\* collects them
Turns == AllActivities(speaker_activities, participants)

\* C29: when there is at least one turn, the texts of the returned segments,
\* joined in segment order, are the sentences of the transcription, each
\* once and in the original order.
C29_AttributionLosesNoSentence ==
  (spc = "assigned" /\ Turns # <<>>) =>
     JoinedTexts(speaker_segments) = Sentences(transcription)

\* C30: when analyze_recording_with_speakers has returned, by its normal
\* return or by its error fallback, no temporary audio file it made for a
\* participant is on disk, the file of a track that did not decode included.
C30_NoParticipantFileAfterReturn ==
  spc \in {"assigned", "single"} => spTempFiles = {}

====
